---- MODULE Spec2Model ----
(***************************************************************************)
(* MonacoCodeBlockView: a Tiptap node view that embeds a Monaco editor.    *)
(*                                                                         *)
(* The document is the sequence of top-level textblocks of the Tiptap      *)
(* editor; one of them is the code block this component renders.  Document *)
(* positions are ProseMirror positions: a textblock occupies               *)
(* Len(text) + 2 positions and getPos() is the position just before the    *)
(* code block.  Time is counted in steps of 100 ms.                        *)
(***************************************************************************)
EXTENDS Integers, Sequences, FiniteSets, TLC

\* ---- bounds of the model ----
MaxLen == 1          \* longest text of the code block
MaxNodes == 3        \* longest document, in top-level nodes
MaxTimers == 2       \* most timers pending at once

\* ---- constants of the program (unit: 100 ms) ----
DebounceWait == 3    \* debounce(..., 300)
FocusDelay == 1      \* setTimeout(..., 100) in handleEditorMount
ResetDelay == 0      \* setTimeout(..., 0) that clears isUpdatingRef

Alphabet == {"a", "\n"}
Texts == UNION {[1..n -> Alphabet] : n \in 0..MaxLen}
NoLanguage == "none"                     \* node.attrs.language unset
languages == {"javascript", "python"}    \* representatives of the <option> list
DefaultLanguage == "javascript"

VARIABLES
    doc,                \* editor.state.doc: sequence of top-level nodes
    cb,                 \* index of this code block in doc; 0 once it is deleted
    monacoInstance,     \* monacoInstance.current # null
    monacoValue,        \* text held by the Monaco model
    cursor,             \* Monaco cursor: [lineNumber, column]
    isUpdatingRef,      \* isUpdatingRef.current
    initialContentRef,  \* initialContentRef.current
    capturedNodeSize,   \* node.nodeSize in the closure handed to onMount
    selected,           \* the `selected` prop
    selectValue,        \* value shown by the language <select>
    monacoFocused,      \* the Monaco editor holds the DOM monacoFocused
    timers,             \* pending setTimeout callbacks, in creation order
    lastEvt,            \* the last Monaco change event and what followed it
    last                \* what the most recent handler did

vars == <<doc, cb, monacoInstance, monacoValue, cursor, isUpdatingRef,
          initialContentRef, capturedNodeSize, selected, selectValue,
          monacoFocused, timers, lastEvt, last>>

\* ---------------------------------------------------------------------------
\* ProseMirror document
\* ---------------------------------------------------------------------------
Paragraph(t) == [type |-> "paragraph", text |-> t, language |-> NoLanguage, marks |-> "none"]

\* editor.schema.nodes.paragraph.create()
EmptyParagraph == Paragraph(<<>>)

\* node.nodeSize of a textblock
nodeSize(n) == Len(n.text) + 2

RECURSIVE SizeUpTo(_, _)
\* total size of the first k nodes of d
SizeUpTo(d, k) == IF k = 0 THEN 0 ELSE SizeUpTo(d, k - 1) + nodeSize(d[k])

\* editor.state.doc.content.size
docSize(d) == SizeUpTo(d, Len(d))

\* position just before node i (i = Len(d) + 1: the end of the document)
StartOf(d, i) == SizeUpTo(d, i - 1)

\* getPos() of the node view
getPos == StartOf(doc, cb)

\* index of the node that starts at pos, 0 when pos is not the start of a node
IndexAt(d, pos) ==
    IF \E i \in 1..Len(d) : StartOf(d, i) = pos
    THEN CHOOSE i \in 1..Len(d) : StartOf(d, i) = pos
    ELSE 0

\* doc.nodeAt(pos) is non-null (for the positions the component passes)
HasNodeAt(d, pos) == IndexAt(d, pos) # 0

\* index of a gap between nodes at pos (1..Len(d)+1), 0 when pos is no gap
GapAt(d, pos) ==
    IF \E i \in 1..(Len(d) + 1) : StartOf(d, i) = pos
    THEN CHOOSE i \in 1..(Len(d) + 1) : StartOf(d, i) = pos
    ELSE 0

\* tr.insert(pos, n) at a gap between top-level nodes
InsertAt(d, pos, n) ==
    LET g == GapAt(d, pos)
    IN SubSeq(d, 1, g - 1) \o <<n>> \o SubSeq(d, g, Len(d))

\* a delete that runs to the end of the document
DeleteToEnd(d, from, to) == SubSeq(d, 1, GapAt(d, from) - 1)

\* tr.delete(from, to) of a range of whole top-level nodes
DeleteRange(d, from, to) ==
    LET g == GapAt(d, from)
        h == GapAt(d, to)
    IN SubSeq(d, 1, g - 1) \o SubSeq(d, h, Len(d))

\* tr.replaceWith(from, to, n)
ReplaceWith(d, from, to, n) == InsertAt(DeleteRange(d, from, to), from, n)

\* tr.insert throws a RangeError for a position outside the document
OutOfRange(d, pos) == pos < 0 \/ pos > docSize(d)


\* ---------------------------------------------------------------------------
\* Monaco text model
\* ---------------------------------------------------------------------------
\* offsets of the line breaks among the first k characters of t
BreaksUpTo(t, k) == {i \in 1..k : t[i] = "\n"}

Max(S) == CHOOSE x \in S : \A y \in S : y <= x

\* model.getPositionAt(off)
PositionAt(t, off) ==
    [lineNumber |-> 1 + Cardinality(BreaksUpTo(t, off)),
     column     |-> off - Max({0} \cup BreaksUpTo(t, off)) + 1]

\* the positions the cursor can take in t
ValidPositions(t) == {PositionAt(t, off) : off \in 0..Len(t)}

\* model.getLineCount()
getLineCount(t) == 1 + Cardinality(BreaksUpTo(t, Len(t)))

\* model.getLineMaxColumn(line)
getLineMaxColumn(t, line) ==
    Max({p.column : p \in {q \in ValidPositions(t) : q.lineNumber = line}})

\* the test without its column half
AtEndOfLastLineAnyColumn(t, position) == position.lineNumber = getLineCount(t)

\* position.lineNumber === lastLineNumber && position.column === lastLineMaxColumn
AtEndOfLastLine(t, position) ==
    LET lastLineNumber == getLineCount(t)
        lastLineMaxColumn == getLineMaxColumn(t, lastLineNumber)
    IN position.lineNumber = lastLineNumber /\ position.column = lastLineMaxColumn

\* position.lineNumber === 1 && position.column === 1
AtStartOfFirstLine(position) == position.lineNumber = 1 /\ position.column = 1

\* setPosition({ lineNumber: 1, column: 1 })
FirstPosition == [lineNumber |-> 1, column |-> 1]

\* ---------------------------------------------------------------------------
\* Tiptap commands
\* ---------------------------------------------------------------------------
NoFocus == -1          \* editor.commands.focus was not called
SelectionKept == -2    \* focus was called and left the selection where it was

MinMax(x, lo, hi) == IF x < lo THEN lo ELSE IF x > hi THEN hi ELSE x

\* editor.commands.focus(position) on document d: Tiptap resolves a falsy
\* position (0 included) to no selection and keeps the current one; any other
\* position is clamped between the start of the first textblock and the end
\* of the last one.
ResolveFocus(d, position) ==
    IF position = 0 THEN SelectionKept
    ELSE MinMax(position, 1, docSize(d) - 1)

\* node.attrs.language || 'javascript'
language(n) == IF n.language = NoLanguage THEN DefaultLanguage ELSE n.language

\* create() without the attributes of the original node
CreateBare(originalNode, value) ==
    [type |-> originalNode.type, text |-> value,
     language |-> NoLanguage, marks |-> originalNode.marks]

\* editor.schema.nodes[originalNode.type.name].create({...originalNode.attrs},
\*   text(value), originalNode.marks)
CreateFrom(originalNode, value) ==
    [type |-> originalNode.type, text |-> value,
     language |-> originalNode.language, marks |-> originalNode.marks]

\* ---------------------------------------------------------------------------
\* Timers
\* ---------------------------------------------------------------------------
\* cur: the timer belongs to the debounce closure of the latest render
DebounceTimer(v) == [kind |-> "debounce", left |-> DebounceWait, value |-> v, cur |-> TRUE]
ResetTimer == [kind |-> "reset", left |-> ResetDelay, value |-> <<>>, cur |-> FALSE]
FocusTimer == [kind |-> "focus", left |-> FocusDelay, value |-> <<>>, cur |-> FALSE]

RemoveAt(s, i) == SubSeq(s, 1, i - 1) \o SubSeq(s, i + 1, Len(s))

IsCurrentDebounce(t) == t.kind = "debounce" /\ t.cur
NotCurrentDebounce(t) == ~IsCurrentDebounce(t)

\* executedFunction(value): clearTimeout(timeout); timeout = setTimeout(later, wait)
executedFunction(ts, v) == Append(SelectSeq(ts, NotCurrentDebounce), DebounceTimer(v))

\* a render calls debounce(...) again: the timers of earlier closures can no
\* longer be cleared
Orphan(ts) == [i \in 1..Len(ts) |-> [ts[i] EXCEPT !.cur = FALSE]]

\* ---------------------------------------------------------------------------
\* What a handler did (observed by the properties)
\* ---------------------------------------------------------------------------
Idle == [op |-> "idle", prevented |-> FALSE, dispatched |-> "none", at |-> -1,
         threw |-> FALSE, focusSel |-> NoFocus, value |-> <<>>, setValue |-> FALSE]


\* ---------------------------------------------------------------------------
\* A render of the component and the effects that run after it
\* ---------------------------------------------------------------------------
\* a render whose text effect has no dependency list: it runs after every
\* render
RenderNoDeps(n, sel, updating, ts, curs) ==
    LET newText == n.text
        textChanged == newText # doc[cb].text
        valueSync == monacoInstance /\ textChanged /\ newText # monacoValue
        selectFocus == sel /\ ~selected /\ monacoInstance
        push == /\ monacoInstance
                /\ ~updating
                /\ newText # initialContentRef
    IN [timers |-> IF push
                   THEN executedFunction(Orphan(ts), newText) \o <<ResetTimer>>
                   ELSE Orphan(ts),
        monacoValue |-> IF valueSync \/ push THEN newText ELSE monacoValue,
        cursor |-> IF valueSync \/ push THEN curs ELSE cursor,
        isUpdatingRef |-> updating \/ push,
        initialContentRef |-> IF push THEN newText ELSE initialContentRef,
        monacoFocused |-> selectFocus \/ monacoFocused,
        selectValue |-> language(n),
        setValue |-> push]

\* Tiptap re-renders the node view when the node or `selected` changes.  n is
\* the new `node` prop, sel the new `selected` prop, updating the
\* value of isUpdatingRef.current while the effects run, ts the timers
\* pending before the render and curs where Monaco leaves its cursor if its
\* content is replaced.  In order: handleEditorChange = debounce(...) makes a
\* fresh closure; <Editor value={node.textContent}> writes a changed value
\* into Monaco without a change event; useEffect [selected]; useEffect
\* [node.textContent].
Render(n, sel, updating, ts, curs) ==
    LET newText == n.text
        textChanged == newText # doc[cb].text
        valueSync == monacoInstance /\ textChanged /\ newText # monacoValue
        selectFocus == sel /\ ~selected /\ monacoInstance
        push == /\ textChanged
                /\ monacoInstance
                /\ ~updating
                /\ newText # initialContentRef
    IN [timers |-> IF push
                   THEN executedFunction(Orphan(ts), newText) \o <<ResetTimer>>
                   ELSE Orphan(ts),
        monacoValue |-> IF valueSync \/ push THEN newText ELSE monacoValue,
        cursor |-> IF valueSync \/ push THEN curs ELSE cursor,
        isUpdatingRef |-> updating \/ push,
        initialContentRef |-> IF push THEN newText ELSE initialContentRef,
        monacoFocused |-> selectFocus \/ monacoFocused,
        selectValue |-> language(n),
        setValue |-> push]

\* a Monaco change event reached onChange
NoteEvent(v) == [value |-> v, age |-> 0]

\* ---------------------------------------------------------------------------
\* Initial state: the first render, Monaco not yet mounted
\* ---------------------------------------------------------------------------
\* the code block alone, or between a paragraph of text and an empty one
Around == {<<<<>>, <<>>>>, <<<<Paragraph(<<"a">>)>>, <<EmptyParagraph>>>>}

CodeBlock(t, l) == [type |-> "codeBlock", text |-> t, language |-> l, marks |-> "none"]

Init ==
    \E around \in Around, t \in Texts, l \in {NoLanguage, "python"} :
        /\ doc = around[1] \o <<CodeBlock(t, l)>> \o around[2]
        /\ cb = Len(around[1]) + 1
        /\ monacoInstance = FALSE
        /\ monacoValue = <<>>
        /\ cursor = FirstPosition
        /\ isUpdatingRef = FALSE
        /\ initialContentRef = t
        /\ capturedNodeSize = Len(t) + 2
        /\ selected = FALSE
        /\ selectValue = language(CodeBlock(t, l))
        /\ monacoFocused = FALSE
        /\ timers = <<>>
        /\ lastEvt = [value |-> <<>>, age |-> DebounceWait]
        /\ last = Idle

Alive == cb # 0

\* ---------------------------------------------------------------------------
\* Monaco finishes loading: handleEditorMount
\* ---------------------------------------------------------------------------
\* getPos() === 0
isFirstNode == getPos = 0

handleEditorMount ==
    /\ Alive
    /\ ~monacoInstance
    /\ monacoInstance' = TRUE
    /\ monacoValue' = doc[cb].text
    /\ cursor' = FirstPosition
    /\ timers' = IF isFirstNode THEN Append(timers, FocusTimer) ELSE timers
    /\ last' = [Idle EXCEPT !.op = "mount"]
    /\ UNCHANGED <<doc, cb, isUpdatingRef, initialContentRef, capturedNodeSize,
                   selected, selectValue, monacoFocused, lastEvt>>

\* ---------------------------------------------------------------------------
\* The user and the rest of the editor
\* ---------------------------------------------------------------------------
\* the user clicks into the Monaco editor
ClickMonaco ==
    /\ Alive
    /\ monacoInstance
    /\ ~monacoFocused
    /\ monacoFocused' = TRUE
    /\ last' = Idle
    /\ UNCHANGED <<doc, cb, monacoInstance, monacoValue, cursor, isUpdatingRef,
                   initialContentRef, capturedNodeSize, selected, selectValue,
                   timers, lastEvt>>

\* Monaco moves its cursor (a key it handles itself, or the mouse)
MoveCursor ==
    /\ Alive
    /\ monacoFocused
    /\ \E c \in ValidPositions(monacoValue) :
        /\ c # cursor
        /\ cursor' = c
    /\ last' = Idle
    /\ UNCHANGED <<doc, cb, monacoInstance, monacoValue, isUpdatingRef,
                   initialContentRef, capturedNodeSize, selected, selectValue,
                   monacoFocused, timers, lastEvt>>

\* the user edits the text in Monaco: onChange(value) -> handleEditorChange
MonacoEdit ==
    /\ Alive
    /\ monacoFocused
    /\ \E v \in Texts : \E c \in ValidPositions(v) :
        /\ v # monacoValue
        /\ monacoValue' = v
        /\ cursor' = c
        /\ timers' = executedFunction(timers, v)
        /\ Len(timers') <= MaxTimers
        /\ lastEvt' = NoteEvent(v)
    /\ last' = [Idle EXCEPT !.op = "edit"]
    /\ UNCHANGED <<doc, cb, monacoInstance, isUpdatingRef, initialContentRef,
                   capturedNodeSize, selected, selectValue, monacoFocused>>

\* ProseMirror selects or deselects the node: the `selected` prop changes
SetSelected ==
    /\ Alive
    /\ LET r == Render(doc[cb], ~selected, isUpdatingRef, timers, cursor)
       IN /\ selected' = ~selected
          /\ timers' = r.timers
          /\ monacoFocused' = r.monacoFocused
    /\ last' = [Idle EXCEPT !.op = "select"]
    /\ UNCHANGED <<doc, cb, monacoInstance, monacoValue, cursor, isUpdatingRef,
                   initialContentRef, capturedNodeSize, selectValue, lastEvt>>

\* the text of the code block is changed from outside the component
\* (undo, another command): the node prop changes
ExternalSetText ==
    /\ Alive
    /\ \E v \in Texts : \E c \in ValidPositions(v) :
        /\ v # doc[cb].text
        /\ LET d == [doc EXCEPT ![cb].text = v]
               r == Render(d[cb], selected, isUpdatingRef, timers, c)
           IN /\ Len(r.timers) <= MaxTimers
              /\ doc' = d
              /\ timers' = r.timers
              /\ monacoValue' = r.monacoValue
              /\ cursor' = r.cursor
              /\ isUpdatingRef' = r.isUpdatingRef
              /\ initialContentRef' = r.initialContentRef
              /\ lastEvt' = IF r.setValue THEN NoteEvent(v) ELSE lastEvt
              /\ last' = [Idle EXCEPT !.op = "external", !.setValue = r.setValue]
    /\ UNCHANGED <<cb, monacoInstance, capturedNodeSize, selected, selectValue, monacoFocused>>


\* ---------------------------------------------------------------------------
\* Handlers of the component
\* ---------------------------------------------------------------------------
\* editor.commands.focus(position) on document d, called by handler rec.op:
\* the Tiptap view takes focus; a resolved position is a text selection, so
\* a selected node is deselected and the component renders once more.
FocusTiptap(d, position, rec) ==
    LET fs == ResolveFocus(d, position)
        deselect == selected /\ fs # SelectionKept
    IN /\ monacoFocused' = FALSE
       /\ selected' = (selected /\ ~deselect)
       /\ timers' = IF deselect
                    THEN Render(doc[cb], FALSE, isUpdatingRef, timers, cursor).timers
                    ELSE timers
       /\ last' = [rec EXCEPT !.focusSel = fs]

\* insertNodeAfter() of the closure that saw a node of size sz
insertNodeAfter(sz, rec) ==
    LET pos == getPos
        endPos == pos + sz
        d == InsertAt(doc, endPos, EmptyParagraph)
    IN IF OutOfRange(doc, endPos)
       THEN /\ last' = [rec EXCEPT !.threw = TRUE]
            /\ UNCHANGED <<doc, monacoFocused, selected, timers>>
       ELSE /\ Len(doc) < MaxNodes
            /\ doc' = d
            /\ FocusTiptap(d, endPos + 1, [rec EXCEPT !.dispatched = "insert", !.at = endPos])

\* insertNodeBefore()
insertNodeBefore(rec) ==
    LET pos == getPos
        d == InsertAt(doc, pos, EmptyParagraph)
    IN /\ Len(doc) < MaxNodes
       /\ doc' = d
       /\ cb' = cb + 1
       /\ FocusTiptap(d, pos, [rec EXCEPT !.dispatched = "insert", !.at = pos])

KeyReady == Alive /\ monacoInstance /\ monacoFocused

Key(name, hit) == [Idle EXCEPT !.op = name, !.prevented = hit]

\* onKeyDown, e.keyCode === KeyCode.DownArrow
ArrowDown ==
    /\ KeyReady
    /\ IF AtEndOfLastLine(monacoValue, cursor)
       THEN LET endPos == getPos + capturedNodeSize
            IN IF endPos >= docSize(doc)
               THEN /\ insertNodeAfter(capturedNodeSize, Key("ArrowDown", TRUE))
                    /\ UNCHANGED cursor
               ELSE /\ cursor' = FirstPosition
                    /\ FocusTiptap(doc, endPos, Key("ArrowDown", TRUE))
                    /\ UNCHANGED doc
       ELSE /\ last' = Key("ArrowDown", FALSE)
            /\ UNCHANGED <<doc, cursor, monacoFocused, selected, timers>>
    /\ UNCHANGED <<cb, monacoInstance, monacoValue, isUpdatingRef, initialContentRef,
                   capturedNodeSize, selectValue, lastEvt>>

\* the shared body of the UpArrow and LeftArrow branches
AtStartKey(name) ==
    /\ KeyReady
    /\ IF AtStartOfFirstLine(cursor)
       THEN IF isFirstNode
            THEN /\ insertNodeBefore(Key(name, TRUE))
                 /\ UNCHANGED cursor
            ELSE /\ cursor' = FirstPosition
                 /\ FocusTiptap(doc, getPos, Key(name, TRUE))
                 /\ UNCHANGED <<doc, cb>>
       ELSE /\ last' = Key(name, FALSE)
            /\ UNCHANGED <<doc, cb, cursor, monacoFocused, selected, timers>>
    /\ UNCHANGED <<monacoInstance, monacoValue, isUpdatingRef, initialContentRef,
                   capturedNodeSize, selectValue, lastEvt>>

\* onKeyDown, e.keyCode === KeyCode.UpArrow
ArrowUp == AtStartKey("ArrowUp")

\* onKeyDown, e.keyCode === KeyCode.LeftArrow
ArrowLeft == AtStartKey("ArrowLeft")

\* onKeyDown, e.keyCode === KeyCode.RightArrow
ArrowRight ==
    /\ KeyReady
    /\ IF AtEndOfLastLine(monacoValue, cursor)
       THEN /\ cursor' = FirstPosition
            /\ FocusTiptap(doc, getPos + capturedNodeSize, Key("ArrowRight", TRUE))
       ELSE /\ last' = Key("ArrowRight", FALSE)
            /\ UNCHANGED <<cursor, monacoFocused, selected, timers>>
    /\ UNCHANGED <<doc, cb, monacoInstance, monacoValue, isUpdatingRef, initialContentRef,
                   capturedNodeSize, selectValue, lastEvt>>

\* onKeyDown with any other key: no branch is taken
OtherKey ==
    /\ KeyReady
    /\ last' = Key("Other", FALSE)
    /\ UNCHANGED <<doc, cb, monacoInstance, monacoValue, cursor, isUpdatingRef,
                   initialContentRef, capturedNodeSize, selected, selectValue,
                   monacoFocused, timers, lastEvt>>

\* handleWrapperClick below the editor: insertNodeAfter() of the current render
handleWrapperClick ==
    /\ Alive
    /\ monacoInstance
    /\ insertNodeAfter(nodeSize(doc[cb]), [Idle EXCEPT !.op = "click"])
    /\ UNCHANGED <<cb, monacoInstance, monacoValue, cursor, isUpdatingRef,
                   initialContentRef, capturedNodeSize, selectValue, lastEvt>>

\* handleDelete: the node view goes away with its node
handleDelete ==
    /\ Alive
    /\ LET pos == getPos
       IN IF HasNodeAt(doc, pos)
          THEN LET nodeAtPos == doc[IndexAt(doc, pos)]
               IN /\ doc' = DeleteRange(doc, pos, pos + nodeSize(nodeAtPos))
                  /\ cb' = 0
                  /\ monacoFocused' = FALSE
                  /\ last' = [Idle EXCEPT !.op = "delete", !.dispatched = "delete",
                                         !.at = pos, !.value = nodeAtPos.text]
          ELSE /\ last' = [Idle EXCEPT !.op = "delete"]
               /\ UNCHANGED <<doc, cb, monacoFocused>>
    /\ UNCHANGED <<monacoInstance, monacoValue, cursor, isUpdatingRef, initialContentRef,
                   capturedNodeSize, selected, selectValue, timers, lastEvt>>

\* onLanguageChange: updateAttributes({ language }) sets the node's markup
onLanguageChange ==
    /\ Alive
    /\ \E l \in languages :
        /\ l # selectValue
        /\ LET d == [doc EXCEPT ![cb].language = l]
               r == Render(d[cb], selected, isUpdatingRef, timers, cursor)
           IN /\ doc' = d
              /\ timers' = r.timers
              /\ selectValue' = r.selectValue
              /\ last' = [Idle EXCEPT !.op = "language", !.dispatched = "setNodeMarkup",
                                     !.at = getPos, !.setValue = r.setValue]
    /\ monacoFocused' = FALSE
    /\ UNCHANGED <<cb, monacoInstance, monacoValue, cursor, isUpdatingRef,
                   initialContentRef, capturedNodeSize, selected, lastEvt>>


\* ---------------------------------------------------------------------------
\* Timers firing and time passing
\* ---------------------------------------------------------------------------
\* a timer that never becomes due
DueNever(i) == FALSE

\* timer i is due, and no timer of its kind created before it is
Due(i) ==
    /\ timers[i].left = 0
    /\ \A j \in 1..(i - 1) : ~(timers[j].left = 0 /\ timers[j].kind = timers[i].kind)

\* later() of debounce: the body of handleEditorChange runs with the value of
\* the call that armed this timer
handleEditorChange ==
    \E i \in 1..Len(timers) :
        /\ timers[i].kind = "debounce"
        /\ Due(i)
        /\ LET value == timers[i].value
               rest == RemoveAt(timers, i)
               rec == [Idle EXCEPT !.op = "handleEditorChange", !.value = value]
           IN IF value = <<>> \/ isUpdatingRef
              THEN \* if (!value || isUpdatingRef.current) return
                   /\ timers' = rest
                   /\ last' = rec
                   /\ UNCHANGED <<doc, monacoValue, cursor, isUpdatingRef,
                                  initialContentRef, lastEvt>>
              ELSE IF ~Alive
              THEN \* the node view is gone: getPos() addresses no node, the
                   \* lookup throws inside try and finally arms the reset
                   /\ isUpdatingRef' = TRUE
                   /\ timers' = Append(rest, ResetTimer)
                   /\ last' = [rec EXCEPT !.threw = TRUE]
                   /\ UNCHANGED <<doc, monacoValue, cursor, initialContentRef, lastEvt>>
              ELSE LET pos == getPos
                       originalNode == doc[IndexAt(doc, pos)]
                       newNode == CreateFrom(originalNode, value)
                       d == ReplaceWith(doc, pos, pos + nodeSize(originalNode), newNode)
                   IN \E c \in ValidPositions(value) :
                       LET r == Render(newNode, selected, TRUE, rest, c)
                       IN /\ doc' = d
                          /\ monacoValue' = r.monacoValue
                          /\ cursor' = r.cursor
                          /\ isUpdatingRef' = TRUE
                          /\ initialContentRef' = value
                          /\ timers' = Append(r.timers, ResetTimer)
                          /\ UNCHANGED lastEvt
                          /\ last' = [rec EXCEPT !.dispatched = "replaceWith", !.at = pos]
    /\ UNCHANGED <<cb, monacoInstance, capturedNodeSize, selected, selectValue, monacoFocused>>

\* setTimeout(() => { isUpdatingRef.current = false }, 0)
ResetGuard ==
    \E i \in 1..Len(timers) :
        /\ timers[i].kind = "reset"
        /\ Due(i)
        /\ timers' = RemoveAt(timers, i)
        /\ isUpdatingRef' = FALSE
        /\ last' = [Idle EXCEPT !.op = "reset"]
        /\ UNCHANGED <<doc, cb, monacoInstance, monacoValue, cursor, initialContentRef,
                       capturedNodeSize, selected, selectValue, monacoFocused, lastEvt>>

\* setTimeout(() => { editorInstance.focus() }, 100)
MountFocus ==
    \E i \in 1..Len(timers) :
        /\ timers[i].kind = "focus"
        /\ Due(i)
        /\ timers' = RemoveAt(timers, i)
        /\ monacoFocused' = (Alive \/ monacoFocused)
        /\ last' = [Idle EXCEPT !.op = "mountFocus"]
        /\ UNCHANGED <<doc, cb, monacoInstance, monacoValue, cursor, isUpdatingRef,
                       initialContentRef, capturedNodeSize, selected, selectValue, lastEvt>>

\* 100 ms pass; a timer that is due fires before time moves on
Tick ==
    /\ timers # <<>> \/ lastEvt.age < DebounceWait
    /\ \A i \in 1..Len(timers) : timers[i].left > 0
    /\ timers' = [i \in 1..Len(timers) |-> [timers[i] EXCEPT !.left = @ - 1]]
    /\ lastEvt' = [lastEvt EXCEPT !.age = IF @ < DebounceWait THEN @ + 1 ELSE @]
    /\ last' = Idle
    /\ UNCHANGED <<doc, cb, monacoInstance, monacoValue, cursor, isUpdatingRef,
                   initialContentRef, capturedNodeSize, selected, selectValue, monacoFocused>>

\* ---------------------------------------------------------------------------
\* Specifications
\* ---------------------------------------------------------------------------
Next ==
    \/ handleEditorMount
    \/ ClickMonaco
    \/ MoveCursor
    \/ MonacoEdit
    \/ SetSelected
    \/ ExternalSetText
    \/ ArrowDown
    \/ ArrowUp
    \/ ArrowLeft
    \/ ArrowRight
    \/ OtherKey
    \/ handleWrapperClick
    \/ handleDelete
    \/ onLanguageChange
    \/ handleEditorChange
    \/ ResetGuard
    \/ MountFocus
    \/ Tick

Spec == Init /\ [][Next]_vars

\* Monaco and the debounced write-back, without the keyboard handlers' and
\* the props' own steps
Editing ==
    \/ handleEditorMount
    \/ ClickMonaco
    \/ MonacoEdit
    \/ handleEditorChange
    \/ ResetGuard
    \/ MountFocus
    \/ Tick

\* the user works in the code block with keyboard and mouse; the node's
\* text changes only through Monaco and it is not selected anew
NextKeyboard ==
    \/ Editing
    \/ MoveCursor
    \/ ArrowDown
    \/ ArrowUp
    \/ ArrowLeft
    \/ ArrowRight
    \/ OtherKey
    \/ handleWrapperClick
    \/ handleDelete

SpecKeyboard == Init /\ [][NextKeyboard]_vars

\* the user edits the text while the node's props change (selection,
\* language, text set from outside); the document around the block stays
NextProps ==
    \/ Editing
    \/ SetSelected
    \/ ExternalSetText
    \/ onLanguageChange

SpecProps == Init /\ [][NextProps]_vars

\* the text of the block is changed only from outside the component: the
\* user never types, so every Monaco change event comes from the setValue of
\* the [node.textContent] effect
NextExternal ==
    \/ handleEditorMount
    \/ ClickMonaco
    \/ ExternalSetText
    \/ handleEditorChange
    \/ ResetGuard
    \/ MountFocus
    \/ Tick

SpecExternal == Init /\ [][NextExternal]_vars

\* the user types while the component re-renders for other reasons
\* (selection, language); the text is never set from outside, so every
\* Monaco change event is a user edit
NextTyping ==
    \/ Editing
    \/ SetSelected
    \/ onLanguageChange

SpecTyping == Init /\ [][NextTyping]_vars

\* the user types and the text is set from outside, in any order; the
\* browser runs every timer that is due and time goes on
NextSync ==
    \/ Editing
    \/ ExternalSetText

SpecSync ==
    /\ Init
    /\ [][NextSync]_vars
    /\ WF_vars(handleEditorChange)
    /\ WF_vars(ResetGuard)
    /\ WF_vars(MountFocus)
    /\ WF_vars(Tick)

\* ---------------------------------------------------------------------------
\* Properties
\* ---------------------------------------------------------------------------
\* the step is the named key handler finding the cursor at its boundary
Hit(name) == last'.op = name /\ last'.prevented

\* end of the code block as the document has it now
BlockEnd == getPos + nodeSize(doc[cb])
IsLastNode == cb = Len(doc)

\* C1: ArrowDown at the end of the last line inserts an empty paragraph
\* exactly when the code block is the last node of the current document; the
\* paragraph goes to the current end of the block and focus lands inside it;
\* otherwise the document is unchanged and focus goes to the position just
\* after the block.
C1_ArrowDownAtEnd ==
    [][Hit("ArrowDown") =>
         IF IsLastNode
         THEN /\ doc' = InsertAt(doc, BlockEnd, EmptyParagraph)
              /\ last'.dispatched = "insert"
              /\ last'.at = BlockEnd
              /\ last'.focusSel = BlockEnd + 1
         ELSE /\ doc' = doc
              /\ last'.dispatched = "none"
              /\ last'.focusSel = BlockEnd]_vars

\* C2: ArrowUp or ArrowLeft at line 1, column 1: a first node gets exactly one
\* empty paragraph before it, nothing else changes, focus lands in the new
\* paragraph and the block is no longer first; any other node leaves the
\* document alone and focus goes to getPos().
C2_ArrowUpLeftAtStart ==
    [][Hit("ArrowUp") \/ Hit("ArrowLeft") =>
         IF isFirstNode
         THEN /\ doc' = <<EmptyParagraph>> \o doc
              /\ cb' = cb + 1
              /\ StartOf(doc', cb') # 0
              /\ last'.focusSel = 1
         ELSE /\ doc' = doc
              /\ last'.dispatched = "none"
              /\ last'.focusSel = getPos]_vars

\* C3: ArrowRight at the end of the last line never changes the document and
\* moves focus to the start of the node that follows the code block.
C3_ArrowRightAtEnd ==
    [][Hit("ArrowRight") =>
         /\ doc' = doc
         /\ last'.dispatched = "none"
         /\ ~IsLastNode => last'.focusSel = BlockEnd]_vars

\* the cursor is at the boundary the named key looks for: behind the last
\* character for ArrowDown and ArrowRight, before the first for ArrowUp and
\* ArrowLeft
AtBoundary(name) ==
    CASE name \in {"ArrowDown", "ArrowRight"} ->
             cursor = PositionAt(monacoValue, Len(monacoValue))
      [] name \in {"ArrowUp", "ArrowLeft"} ->
             cursor = PositionAt(monacoValue, 0)
      [] OTHER -> FALSE

KeyNames == {"ArrowDown", "ArrowUp", "ArrowLeft", "ArrowRight", "Other"}

\* C4: a key pressed away from its boundary, and any other key, leaves the
\* document, the Tiptap focus and the Monaco cursor alone and is not
\* suppressed.
C4_KeyAwayFromBoundary ==
    [][\A name \in KeyNames :
         (last'.op = name /\ last' # last /\ ~AtBoundary(name)) =>
             /\ ~last'.prevented
             /\ last'.dispatched = "none"
             /\ last'.focusSel = NoFocus
             /\ doc' = doc
             /\ cb' = cb
             /\ cursor' = cursor
             /\ monacoFocused' = monacoFocused
             /\ timers' = timers]_vars

\* an arrow key was pressed with text before and after the cursor's boundary
C4_Witness ==
    /\ last.op = "ArrowDown"
    /\ ~last.prevented
    /\ ~AtBoundary("ArrowDown")
    /\ cursor.lineNumber = getLineCount(monacoValue)

Applied == last'.op = "handleEditorChange" /\ last'.dispatched = "replaceWith"

\* C6: a transaction caused by typing is dispatched no earlier than 300 ms
\* after the last Monaco change event and carries the value of that event,
\* whatever renders happened between the events.
C6_Debounced ==
    [][Applied =>
         /\ lastEvt.age >= DebounceWait
         /\ last'.value = lastEvt.value]_vars

\* C7: selecting a language changes the language attribute of the code block
\* and nothing else in the document, calls no setValue and replaces no text;
\* a node without the attribute is shown as 'javascript'.
C7_LanguageOnly ==
    /\ [][last'.op = "language" =>
            /\ last'.dispatched = "setNodeMarkup"
            /\ ~last'.setValue
            /\ cb' = cb
            /\ Len(doc') = Len(doc)
            /\ \A i \in 1..Len(doc) : i # cb => doc'[i] = doc[i]
            /\ doc'[cb] = [doc[cb] EXCEPT !.language = selectValue']
            /\ doc'[cb].language # doc[cb].language
            /\ StartOf(doc', cb') = getPos
            /\ monacoValue' = monacoValue
            /\ lastEvt' = lastEvt
            /\ initialContentRef' = initialContentRef]_vars
    /\ [](Alive => selectValue = IF doc[cb].language = NoLanguage
                                 THEN "javascript"
                                 ELSE doc[cb].language)

\* a language was selected for a block whose text Monaco had not been told of
C7_Witness ==
    /\ last.op = "language"
    /\ Alive
    /\ monacoInstance
    /\ doc[cb].language = "python"
    /\ doc[cb].text # initialContentRef
    /\ ~isUpdatingRef

\* C8: Monaco gets the focus whenever the node becomes selected, also when
\* the node is already selected as Monaco finishes mounting (at once, or by
\* the 100 ms timer of a first node); a first node gets it 100 ms after mount.
C8_SelectedFocusesMonaco ==
    /\ [][(selected' /\ ~selected /\ monacoInstance) => monacoFocused']_vars
    /\ [][(monacoInstance' /\ ~monacoInstance /\ selected) =>
            (monacoFocused' \/ \E i \in 1..Len(timers') : timers'[i] = FocusTimer)]_vars
    /\ [][(monacoInstance' /\ ~monacoInstance /\ isFirstNode) =>
            \E i \in 1..Len(timers') : timers'[i] = FocusTimer]_vars
    /\ [][(last'.op = "mountFocus" /\ Alive) => monacoFocused']_vars

\* C9: an applied debounced change replaces the node at getPos() by a node of
\* the same type, attributes and marks whose text is the new value; the
\* block's position and all other nodes stay, the document size changes by
\* the difference of the text lengths, and initialContentRef is the new value.
C9_ReplaceKeepsNode ==
    [][Applied =>
         LET value == last'.value
             old == doc[cb]
         IN /\ value # <<>>
            /\ cb' = cb
            /\ Len(doc') = Len(doc)
            /\ \A i \in 1..Len(doc) : i # cb => doc'[i] = doc[i]
            /\ doc'[cb] = [type |-> old.type, text |-> value,
                           language |-> old.language, marks |-> old.marks]
            /\ StartOf(doc', cb') = getPos
            /\ last'.at = getPos
            /\ docSize(doc') - docSize(doc) = Len(value) - Len(old.text)
            /\ initialContentRef' = value]_vars

\* a change was applied to a block with a language, between two other nodes
C9_Witness ==
    /\ last.op = "handleEditorChange"
    /\ last.dispatched = "replaceWith"
    /\ Alive
    /\ Len(doc) = 3
    /\ cb = 2
    /\ doc[cb].language = "python"
    /\ doc[cb].text = last.value
    /\ Len(last.value) + 2 # capturedNodeSize

\* C10: with no timer pending and no change from outside, the text of the
\* code block in the document is the text Monaco holds.
C10_QuiescentInSync ==
    (Alive /\ monacoInstance /\ timers = <<>>) => doc[cb].text = monacoValue

\* C11: no echo. When the user never types, every Monaco change event is
\* the one produced by setValue in the [node.textContent] effect; the debounced
\* handleEditorChange run for such an event dispatches no transaction.
C11_NoEcho ==
    [][last'.op = "handleEditorChange" => last'.dispatched = "none"]_vars

\* no debounce timer and no guard-reset timer is pending
NoSyncTimer ==
    \A i \in 1..Len(timers) : timers[i].kind \notin {"debounce", "reset"}

\* the step is a user edit or a change of the text from outside
InputStep == last'.op \in {"edit", "external"}

\* the step dispatches a transaction or calls setValue
SyncStep == last'.dispatched # "none" \/ last'.setValue

C13_NoRollback ==
    [][Applied =>
         /\ last'.value = lastEvt.value
         /\ monacoValue' = monacoValue]_vars

====
